---- MODULE Spec2Model ----
(***************************************************************************)
(* The current-thread executor of src/src/current_thread.rs as a state     *)
(* machine of ONE thread: the thread-local CURRENT (cancel, non_daemons,   *)
(* schedule), the thread's Enter flag, the scheduler owned by the running  *)
(* TaskRunner, and the position of the thread inside block_with_init.      *)
(*                                                                         *)
(* User code (the initializer, a task's poll, a custom sleep strategy, a   *)
(* task's destructor) is open: while the thread is inside it, it may make  *)
(* any of the public calls, one call per step.                             *)
(***************************************************************************)
EXTENDS Integers, Sequences, FiniteSets, TLC

\* ---------------------------------------------------------------- bounds
\* entries submitted in one session, and sessions started on the thread
MaxTasks == 2
MaxSessions == 2

\* tests/current_thread_executor.rs: Spin idx 0 finishes at state[0] >= 50
SpinLimit == 50

\* the most polls that report NotReady before a task of the liveness
\* scenario finishes
MaxNotReady == 1

VARIABLES
    cancel,         \* CURRENT.cancel
    non_daemons,    \* CURRENT.non_daemons
    schedule,       \* CURRENT.schedule: "None" or "Some"
    entered,        \* the thread's executor::Enter is held
    nodes,          \* the scheduler's entries of the running session, by id
    ready,          \* the scheduler's queue of notified entries
    cur,            \* the entry whose poll is running, 0 when none
    pc,             \* where the thread is
    session,        \* sessions started on this thread so far
    cancel_called,  \* cancel_all_spawned succeeded in the current session
    last,           \* the step taken last: [op, res]
    prev_end,       \* how the last finished session ended
    state,          \* the two unit counters shared by the Spin tasks
    signal          \* the oneshot channel, its sender thread, the park token

vars == <<cancel, non_daemons, schedule, entered, nodes, ready, cur, pc,
          session, cancel_called, last, prev_end, state, signal>>

Ids == 1..MaxTasks

\* tx: where the sender thread is ("none": no channel yet); waker: the
\* receiver has left its waker in the channel; token: an unpark is pending
\* for the session thread; cnt: the test's counter of side effects
NoSignal == [tx |-> "none", waker |-> FALSE, token |-> FALSE, cnt |-> 0]

\* polled: the entry has been polled; in_poll: it was submitted from a poll
FreeNode ==
    [st |-> "free", daemon |-> FALSE, polled |-> FALSE, in_poll |-> FALSE]

\* positions at which user code runs and may call the public functions
CallSites == {"idle", "init", "poll", "sleep", "teardown"}

\* a panic inside a session unwinds through enter ("panic"); one outside any
\* session has nothing of the executor to unwind ("abort")
PanicPc(p) == IF p = "idle" THEN "abort" ELSE "panic"

Held == {i \in Ids : nodes[i].st = "held"}
HeldPrimary == {i \in Held : ~nodes[i].daemon}
Used == {i \in Ids : nodes[i].st # "free"}
InQueue(q, i) == \E k \in 1..Len(q) : q[k] = i
Remove(q, i) == SelectSeq(q, LAMBDA x : x # i)

\* ------------------------------------------------------- pure code pieces

\* CurrentRunner::is_running (variants: the cancel flag is not consulted;
\* the counter is not consulted)
is_running_no_cancel(nd, c) == nd > 0
is_running_any(nd, c) == ~c
is_running(nd, c) == nd > 0 /\ ~c

\* execute: Some(schedule) => Ok, None => Err(Shutdown, future) (variant: a
\* cancelled runner refuses as well)
execute_unless_cancelled(sch) ==
    IF sch # "None" /\ ~cancel THEN "Ok" ELSE "Err"
execute(sch) == IF sch # "None" THEN "Ok" ELSE "Err"

\* execute: the counter after the call (variant: the increment is made
\* before the slot is looked at)
execute_count_first(sch, nd, daemon) == IF ~daemon THEN nd + 1 ELSE nd
execute_count(sch, nd, daemon) ==
    IF sch # "None" /\ ~daemon THEN nd + 1 ELSE nd

\* CurrentRunner::with: Ok(f(current)) when a handle is installed, else Err(())
\* (variant: the slot is not looked at)
with_unchecked(sch) == "Ok"
with(sch) == IF sch # "None" THEN "Ok" ELSE "Err"

\* the unwrap_or_else(panic!) of spawn, spawn_daemon and cancel_all_spawned
\* (variant: the error is swallowed)
unwrap_ignore(r) == "Ok"
unwrap_or_else(r) == IF r = "Err" THEN "panic" ELSE r

\* TaskRunner::enter: the assert on the slot, then executor::enter().expect
\* (variant: neither check is made)
enter_unchecked(sch, ent) == FALSE
enter_panics(sch, ent) == sch # "None" \/ ent

\* set_schedule: Reset::drop clears the slot when the closure returns
\* (variant: the slot is left as it is)
Reset_forget(sch) == sch
Reset_drop(sch) == "None"

\* set_schedule: Reset::drop runs also when the closure panics
\* (variant: the slot is cleared on normal return only)
Reset_unwind_skipped(sch) == sch
Reset_unwind(sch) == Reset_drop(sch)

\* TaskRunner::enter: ctx, and the Enter in it, lives until drop(ctx) after
\* run (variant: it is dropped when the initializer has returned)
Context_dropped(ent) == FALSE
Context_held(ent) == ent

\* TaskRunner::run: where the loop goes after Tick::Empty and after
\* Tick::Inconsistent (variant: it parks after both)
after_tick_park(res) == "sleep"
after_tick(res) == IF res = "Empty" THEN "sleep" ELSE "guard"

\* TaskRunner::run, Tick::Data(is_daemon): the counter after the match arm
\* (variants: the counter is cleared; is_daemon is not looked at)
tick_data_reset(nd, is_daemon) == IF ~is_daemon THEN 0 ELSE nd
tick_data_all(nd, is_daemon) == nd - 1
tick_data(nd, is_daemon) == IF ~is_daemon THEN nd - 1 ELSE nd

\* ---------------------------------------------------- scheduler collaborator

\* Scheduler::schedule: a new entry is queued for its first poll, last in line
Scheduler_schedule(q, i) == Append(q, i)

\* a notification queues the entry last in line, once (variant: first in
\* line)
notify_front(q, i) == IF InQueue(q, i) THEN q ELSE <<i>> \o q
notify(q, i) == IF InQueue(q, i) THEN q ELSE Append(q, i)

\* ------------------------------------------------------------------- Init

Init ==
    /\ cancel = FALSE
    /\ non_daemons = 0
    /\ schedule = "None"
    /\ entered = FALSE
    /\ nodes = [i \in Ids |-> FreeNode]
    /\ ready = <<>>
    /\ cur = 0
    /\ pc = "idle"
    /\ session = 0
    /\ cancel_called = FALSE
    /\ last = [op |-> "none", res |-> "Ok"]
    /\ prev_end = "none"
    /\ state = <<0, 0>>
    /\ signal = NoSignal

\* ---------------------------------------------------------------- actions

\* block_with_init / TaskRunner::enter up to the call of the initializer
block_with_init ==
    /\ pc \in {"idle", "init", "poll", "sleep"}
    /\ IF enter_panics(schedule, entered)
       THEN /\ pc' = PanicPc(pc)
            /\ last' = [op |-> "block_with_init", res |-> "panic"]
            /\ UNCHANGED <<cancel, non_daemons, schedule, entered, nodes,
                           ready, cur, session, cancel_called, prev_end,
                           state, signal>>
       ELSE /\ session < MaxSessions
            /\ entered' = TRUE
            /\ schedule' = "Some"
            /\ nodes' = [i \in Ids |-> FreeNode]
            /\ ready' = <<>>
            /\ cur' = 0
            /\ pc' = "init"
            /\ session' = session + 1
            /\ cancel_called' = FALSE
            /\ last' = [op |-> "block_with_init", res |-> "Ok"]
            /\ UNCHANGED <<cancel, non_daemons, prev_end, state, signal>>

\* execute(future, daemon) behind one of its four callers
Submit(op, daemon) ==
    /\ pc \in CallSites
    /\ LET r == execute(schedule)
           res == IF op \in {"spawn", "spawn_daemon"}
                  THEN unwrap_or_else(r) ELSE r
           id == Cardinality(Used) + 1
       IN  /\ (r = "Ok") => id <= MaxTasks
           /\ non_daemons' = execute_count(schedule, non_daemons, daemon)
           /\ IF r = "Ok"
              THEN /\ nodes' = [nodes EXCEPT ![id] =
                          [st |-> "held", daemon |-> daemon, polled |-> FALSE,
                           in_poll |-> (pc = "poll")]]
                   /\ ready' = Scheduler_schedule(ready, id)
              ELSE UNCHANGED <<nodes, ready>>
           /\ last' = [op |-> op, res |-> res]
           /\ pc' = IF res = "panic" THEN PanicPc(pc) ELSE pc
    /\ UNCHANGED <<cancel, schedule, entered, cur, session, cancel_called,
                   prev_end, state, signal>>

spawn == Submit("spawn", FALSE)
spawn_daemon == Submit("spawn_daemon", TRUE)
TaskExecutor_execute == Submit("TaskExecutor", FALSE)
DaemonExecutor_execute == Submit("DaemonExecutor", TRUE)

\* cancel_all_spawned: CurrentRunner::with(cancel_all_executing) or panic
cancel_all_spawned ==
    /\ pc \in CallSites
    /\ LET r == with(schedule)
           res == unwrap_or_else(r)
       IN  /\ cancel' = IF r = "Ok" THEN TRUE ELSE cancel
           /\ cancel_called' = IF r = "Ok" THEN TRUE ELSE cancel_called
           /\ last' = [op |-> "cancel_all_spawned", res |-> res]
           /\ pc' = IF res = "panic" THEN PanicPc(pc) ELSE pc
    /\ UNCHANGED <<non_daemons, schedule, entered, nodes, ready, cur, session,
                   prev_end, state, signal>>

\* blocking(future).wait() in user code: another blocking executor asks for
\* the thread's Enter and panics when it is taken; outside a session it gets
\* it and gives it back
blocking_wait ==
    /\ pc \in {"idle", "init", "poll", "sleep"}
    /\ last' = [op |-> "blocking_wait",
                res |-> IF entered THEN "panic" ELSE "Ok"]
    /\ pc' = IF entered THEN PanicPc(pc) ELSE pc
    /\ UNCHANGED <<cancel, non_daemons, schedule, entered, nodes, ready, cur,
                   session, cancel_called, prev_end, state, signal>>

\* the initializer returns: set_schedule's Reset clears the slot, run starts
InitReturn ==
    /\ pc = "init"
    /\ schedule' = Reset_drop(schedule)
    /\ entered' = Context_held(entered)
    /\ pc' = "guard"
    /\ last' = [op |-> "init_return", res |-> "Ok"]
    /\ UNCHANGED <<cancel, non_daemons, nodes, ready, cur, session,
                   cancel_called, prev_end, state, signal>>

\* run: the guard holds and tick hands the first queued entry to the closure,
\* which installs the handle and starts the poll
TickPoll ==
    /\ pc = "guard"
    /\ is_running(non_daemons, cancel)
    /\ ready # <<>>
    /\ cur' = Head(ready)
    /\ ready' = Tail(ready)
    /\ nodes' = [nodes EXCEPT ![Head(ready)].polled = TRUE]
    /\ schedule' = "Some"
    /\ pc' = "poll"
    /\ last' = [op |-> "tick_poll", res |-> "Ok"]
    /\ UNCHANGED <<cancel, non_daemons, entered, session, cancel_called,
                   prev_end, state, signal>>

\* run: the guard holds and tick finds no queued entry: Tick::Empty, sleep()
TickEmpty ==
    /\ pc = "guard"
    /\ is_running(non_daemons, cancel)
    /\ ready = <<>>
    /\ pc' = after_tick("Empty")
    /\ last' = [op |-> "tick_empty", res |-> "Ok"]
    /\ UNCHANGED <<cancel, non_daemons, schedule, entered, nodes, ready, cur,
                   session, cancel_called, prev_end, state, signal>>

\* run: the guard holds and tick finds the queue in the middle of a
\* notifier's push: Tick::Inconsistent, yield_now() and loop
TickInconsistent ==
    /\ pc = "guard"
    /\ is_running(non_daemons, cancel)
    /\ \E i \in Held : ~InQueue(ready, i)
    /\ pc' = after_tick("Inconsistent")
    /\ last' = [op |-> "tick_inconsistent", res |-> "Ok"]
    /\ UNCHANGED <<cancel, non_daemons, schedule, entered, nodes, ready, cur,
                   session, cancel_called, prev_end, state, signal>>

\* sleep() returns and the loop evaluates its guard again
SleepReturn ==
    /\ pc = "sleep"
    /\ pc' = "guard"
    /\ last' = [op |-> "sleep_return", res |-> "Ok"]
    /\ UNCHANGED <<cancel, non_daemons, schedule, entered, nodes, ready, cur,
                   session, cancel_called, prev_end, state, signal>>

\* the poll reports Ok(Ready) or Err: Async::Ready(daemon), the slot is
\* cleared, the entry is released, Tick::Data(is_daemon) is matched
PollFinished(how) ==
    /\ pc = "poll"
    /\ schedule' = Reset_drop(schedule)
    /\ nodes' = [nodes EXCEPT ![cur].st = "done"]
    /\ ready' = Remove(ready, cur)
    /\ non_daemons' = tick_data(non_daemons, nodes[cur].daemon)
    /\ cur' = 0
    /\ pc' = "guard"
    /\ last' = [op |-> "poll", res |-> how]
    /\ UNCHANGED <<cancel, entered, session, cancel_called, prev_end, state,
                   signal>>

\* the poll reports Ok(NotReady): the slot is cleared, the entry stays held
PollNotReady ==
    /\ pc = "poll"
    /\ schedule' = Reset_drop(schedule)
    /\ cur' = 0
    /\ pc' = "guard"
    /\ last' = [op |-> "poll", res |-> "NotReady"]
    /\ UNCHANGED <<cancel, non_daemons, entered, nodes, ready, session,
                   cancel_called, prev_end, state, signal>>

\* a notification for a held entry: from its own poll, another task or
\* another thread
Notify(i) ==
    /\ pc \in {"init", "guard", "poll", "sleep"}
    /\ i \in Held
    /\ ~InQueue(ready, i)
    /\ ready' = notify(ready, i)
    /\ last' = [op |-> "notify", res |-> "Ok"]
    /\ UNCHANGED <<cancel, non_daemons, schedule, entered, nodes, cur, pc,
                   session, cancel_called, prev_end, state, signal>>

\* the initializer or a poll panics by itself
UserPanic ==
    /\ pc \in {"init", "poll"}
    /\ pc' = PanicPc(pc)
    /\ last' = [op |-> "user_panic", res |-> "panic"]
    /\ UNCHANGED <<cancel, non_daemons, schedule, entered, nodes, ready, cur,
                   session, cancel_called, prev_end, state, signal>>

\* run: the guard is false: the loop exits and enter drops the Context
GuardExit ==
    /\ pc = "guard"
    /\ ~is_running(non_daemons, cancel)
    /\ entered' = FALSE
    /\ pc' = "teardown"
    /\ last' = [op |-> "guard_exit", res |-> "Ok"]
    /\ UNCHANGED <<cancel, non_daemons, schedule, nodes, ready, cur, session,
                   cancel_called, prev_end, state, signal>>

Drop(ns) == [i \in Ids |->
                IF ns[i].st = "held" THEN [ns[i] EXCEPT !.st = "dropped"]
                ELSE ns[i]]

\* enter returns: the TaskRunner and every entry it still holds are dropped
Return ==
    /\ pc = "teardown"
    /\ nodes' = Drop(nodes)
    /\ ready' = <<>>
    /\ pc' = "idle"
    /\ prev_end' = "returned"
    /\ last' = [op |-> "return", res |-> "Ok"]
    /\ UNCHANGED <<cancel, non_daemons, schedule, entered, cur, session,
                   cancel_called, state, signal>>

\* a panic unwinds out of block_with_init: Reset clears the slot, the Context
\* and the TaskRunner are dropped; cancel and non_daemons are left as they are
Unwind ==
    /\ pc \in {"panic", "abort"}
    /\ schedule' = Reset_unwind(schedule)
    /\ entered' = FALSE
    /\ nodes' = Drop(nodes)
    /\ ready' = <<>>
    /\ cur' = 0
    /\ pc' = "idle"
    /\ prev_end' = IF pc = "panic" THEN "panicked" ELSE prev_end
    /\ last' = [op |-> "unwind", res |-> "Ok"]
    /\ UNCHANGED <<cancel, non_daemons, session, cancel_called, state, signal>>

Next ==
    \/ block_with_init
    \/ spawn
    \/ spawn_daemon
    \/ TaskExecutor_execute
    \/ DaemonExecutor_execute
    \/ cancel_all_spawned
    \/ blocking_wait
    \/ InitReturn
    \/ TickPoll
    \/ TickEmpty
    \/ TickInconsistent
    \/ SleepReturn
    \/ PollFinished("Ready")
    \/ PollFinished("Err")
    \/ PollNotReady
    \/ \E i \in Ids : Notify(i)
    \/ UserPanic
    \/ GuardExit
    \/ Return
    \/ Unwind

Spec == Init /\ [][Next]_vars

\* ------------------------------------------------ sessions without a panic

\* the thread's behaviours in which no call and no user code panics
Calm(A) == A /\ pc' \notin {"panic", "abort"}

NextCalm ==
    \/ Calm(block_with_init)
    \/ Calm(spawn)
    \/ Calm(spawn_daemon)
    \/ Calm(TaskExecutor_execute)
    \/ Calm(DaemonExecutor_execute)
    \/ Calm(cancel_all_spawned)
    \/ Calm(blocking_wait)
    \/ InitReturn
    \/ TickPoll
    \/ TickEmpty
    \/ TickInconsistent
    \/ SleepReturn
    \/ PollFinished("Ready")
    \/ PollFinished("Err")
    \/ PollNotReady
    \/ \E i \in Ids : Notify(i)
    \/ GuardExit
    \/ Return

SpecCalm == Init /\ [][NextCalm]_vars

\* ------------------------------------------- the two Spin tasks of the tests

\* Spin::poll, whole: idx 0 (the Primary one) finishes once state[0] has
\* reached the limit; otherwise the task does one unit, notifies itself and
\* reports NotReady
SpinPoll ==
    /\ pc = "poll"
    /\ LET idx == IF nodes[cur].daemon THEN 2 ELSE 1
       IN  IF idx = 1 /\ state[1] >= SpinLimit
           THEN /\ nodes' = [nodes EXCEPT ![cur].st = "done"]
                /\ ready' = Remove(ready, cur)
                /\ non_daemons' = tick_data(non_daemons, nodes[cur].daemon)
                /\ last' = [op |-> "poll", res |-> "Ready"]
                /\ UNCHANGED state
           ELSE /\ state' = [state EXCEPT ![idx] = @ + 1]
                /\ ready' = notify(ready, cur)
                /\ last' = [op |-> "poll", res |-> "NotReady"]
                /\ UNCHANGED <<nodes, non_daemons>>
    /\ schedule' = Reset_drop(schedule)
    /\ cur' = 0
    /\ pc' = "guard"
    /\ UNCHANGED <<cancel, entered, session, cancel_called, prev_end, signal>>

\* tasks_are_scheduled_fairly: one session on a fresh thread whose
\* initializer submits one Primary and one Daemon Spin task
FairEnter == pc = "idle" /\ session = 0 /\ block_with_init
FairSpawn == pc = "init" /\ HeldPrimary = {} /\ spawn
FairSpawnDaemon == pc = "init" /\ Held \ HeldPrimary = {} /\ spawn_daemon
FairInitReturn == Cardinality(Held) = 2 /\ InitReturn

NextFair ==
    \/ FairEnter
    \/ FairSpawn
    \/ FairSpawnDaemon
    \/ FairInitReturn
    \/ TickPoll
    \/ SpinPoll
    \/ GuardExit
    \/ Return

SpecFair == Init /\ [][NextFair]_vars

\* ------------------------------- the cross-thread signal of the tests

\* the value has been stored in the channel
Sent == signal.tx \notin {"none", "armed"}

\* block_waits_for_non_daemon, initializer: oneshot::channel() and
\* thread::spawn of the sender
ThreadSpawn ==
    /\ pc = "init"
    /\ signal.tx = "none"
    /\ signal' = [signal EXCEPT !.tx = "armed"]
    /\ last' = [op |-> "thread_spawn", res |-> "Ok"]
    /\ UNCHANGED <<cancel, non_daemons, schedule, entered, nodes, ready, cur,
                   pc, session, cancel_called, prev_end, state>>

\* poll of rx.then(..): the value is there, the closure counts and the task
\* finishes; or it is not, the receiver leaves its waker and reports NotReady
RxPoll ==
    /\ pc = "poll"
    /\ IF Sent
       THEN /\ nodes' = [nodes EXCEPT ![cur].st = "done"]
            /\ ready' = Remove(ready, cur)
            /\ non_daemons' = tick_data(non_daemons, nodes[cur].daemon)
            /\ signal' = [signal EXCEPT !.cnt = @ + 1]
            /\ last' = [op |-> "poll", res |-> "Ready"]
       ELSE /\ signal' = [signal EXCEPT !.waker = TRUE]
            /\ last' = [op |-> "poll", res |-> "NotReady"]
            /\ UNCHANGED <<nodes, ready, non_daemons>>
    /\ schedule' = Reset_drop(schedule)
    /\ cur' = 0
    /\ pc' = "guard"
    /\ UNCHANGED <<cancel, entered, session, cancel_called, prev_end, state>>

\* sender thread, tx.send(()): the value is stored and the waker, when the
\* receiver left one, is taken to be woken
Send ==
    /\ signal.tx = "armed"
    /\ signal' = [signal EXCEPT !.tx = IF signal.waker THEN "wake" ELSE "done"]
    /\ UNCHANGED <<cancel, non_daemons, schedule, entered, nodes, ready, cur,
                   pc, session, cancel_called, last, prev_end, state>>

\* sender thread, the waker, first half: the entry, when the scheduler still
\* holds it, is queued
SendNotify ==
    /\ signal.tx = "wake"
    /\ ready' = IF nodes[1].st = "held" THEN notify(ready, 1) ELSE ready
    /\ signal' = [signal EXCEPT !.tx = "unpark"]
    /\ UNCHANGED <<cancel, non_daemons, schedule, entered, nodes, cur, pc,
                   session, cancel_called, last, prev_end, state>>

\* sender thread, the waker, second half: the session thread is unparked
SendUnpark ==
    /\ signal.tx = "unpark"
    /\ signal' = [signal EXCEPT !.tx = "done", !.token = TRUE]
    /\ UNCHANGED <<cancel, non_daemons, schedule, entered, nodes, ready, cur,
                   pc, session, cancel_called, last, prev_end, state>>

\* sleep() of the session thread returns by taking the pending unpark
ParkReturn ==
    /\ pc = "sleep"
    /\ signal.token
    /\ signal' = [signal EXCEPT !.token = FALSE]
    /\ pc' = "guard"
    /\ last' = [op |-> "sleep_return", res |-> "Ok"]
    /\ UNCHANGED <<cancel, non_daemons, schedule, entered, nodes, ready, cur,
                   session, cancel_called, prev_end, state>>

\* sessions one after the other on the thread; the initializer of one of
\* them is the one of block_waits_for_non_daemon, any other submits nothing
\* and may call cancel_all_spawned
SignalEnter == pc = "idle" /\ block_with_init
SignalCancel == pc = "init" /\ signal.tx = "none" /\ cancel_all_spawned
SignalSpawn == pc = "init" /\ last.op = "thread_spawn" /\ spawn
SignalInitReturn == last.op # "thread_spawn" /\ InitReturn
SignalInconsistent == signal.tx = "wake" /\ TickInconsistent

NextSignal ==
    \/ SignalEnter
    \/ SignalCancel
    \/ ThreadSpawn
    \/ SignalSpawn
    \/ SignalInitReturn
    \/ TickPoll
    \/ RxPoll
    \/ TickEmpty
    \/ SignalInconsistent
    \/ ParkReturn
    \/ Send
    \/ SendNotify
    \/ SendUnpark
    \/ GuardExit
    \/ Return

SpecSignal == Init /\ [][NextSignal]_vars

\* ------------------------- tasks that finish, woken from another thread

\* poll of a Primary task that finishes after finitely many polls: it
\* reports Ready, or, at most MaxNotReady times, NotReady, and then waits to
\* be notified again
LivePoll ==
    /\ pc = "poll"
    /\ \/ /\ nodes' = [nodes EXCEPT ![cur].st = "done"]
          /\ ready' = Remove(ready, cur)
          /\ non_daemons' = tick_data(non_daemons, nodes[cur].daemon)
          /\ last' = [op |-> "poll", res |-> "Ready"]
          /\ UNCHANGED state
       \/ /\ state[cur] < MaxNotReady
          /\ state' = [state EXCEPT ![cur] = @ + 1]
          /\ last' = [op |-> "poll", res |-> "NotReady"]
          /\ UNCHANGED <<nodes, ready, non_daemons>>
    /\ schedule' = Reset_drop(schedule)
    /\ cur' = 0
    /\ pc' = "guard"
    /\ UNCHANGED <<cancel, entered, session, cancel_called, prev_end, signal>>

\* notifier thread: a held entry is not queued, the notifier starts its push
WakeStart ==
    /\ signal.tx \in {"none", "done"}
    /\ \E i \in Held : ~InQueue(ready, i)
    /\ signal' = [signal EXCEPT !.tx = "wake"]
    /\ UNCHANGED <<cancel, non_daemons, schedule, entered, nodes, ready, cur,
                   pc, session, cancel_called, last, prev_end, state>>

\* notifier thread: the push completes, an entry still held and not queued
\* is queued
WakeNotify ==
    /\ signal.tx = "wake"
    /\ IF \E i \in Held : ~InQueue(ready, i)
       THEN \E i \in Held : ~InQueue(ready, i) /\ ready' = notify(ready, i)
       ELSE ready' = ready
    /\ signal' = [signal EXCEPT !.tx = "unpark"]
    /\ UNCHANGED <<cancel, non_daemons, schedule, entered, nodes, cur, pc,
                   session, cancel_called, last, prev_end, state>>

\* sessions one after the other on the thread; the initializer submits
\* Primary tasks; the initializer of the first session may panic, the panic
\* being caught by the caller of block_with_init
LiveEnter == pc = "idle" /\ block_with_init
LiveSpawn == pc = "init" /\ spawn
LivePanic == pc = "init" /\ session = 1 /\ UserPanic

\* the steps of the session thread once the initializer has returned
LiveThread ==
    \/ TickPoll
    \/ LivePoll
    \/ TickEmpty
    \/ ParkReturn
    \/ GuardExit
    \/ Return

\* the steps of the notifier thread
LiveNotifier ==
    \/ WakeStart
    \/ WakeNotify
    \/ SendUnpark

NextLive ==
    \/ LiveEnter
    \/ LiveSpawn
    \/ LivePanic
    \/ Unwind
    \/ InitReturn
    \/ LiveThread
    \/ SignalInconsistent
    \/ LiveNotifier

\* the session thread keeps running, every wakeup started is delivered and
\* an entry waiting for one gets it
SpecLive ==
    /\ Init
    /\ [][NextLive]_vars
    /\ WF_vars(LiveThread)
    /\ WF_vars(LiveNotifier)

\* ------------------------------------------------------------------ claims

Abs(n) == IF n < 0 THEN 0 - n ELSE n

\* C1: block_with_init returns only after every Primary task submitted during
\* the session has finished, or after cancel_all_spawned was called during
\* that session.
C1_ReturnAfterPrimaries ==
    [][(pc = "teardown" /\ pc' = "idle")
          => (HeldPrimary = {} \/ cancel_called)]_vars

\* C2: once cancel_all_spawned has been called in a session no poll starts
\* any more, the loop leaves its guard only by exiting, and at the return no
\* entry is left held: each one still held is dropped unfinished.
C2_CancelStopsPolling ==
    [][cancel_called =>
          /\ ~(pc # "poll" /\ pc' = "poll")
          /\ (pc = "guard" /\ pc' # "guard") => pc' = "teardown"
          /\ (pc = "teardown" /\ pc' = "idle") =>
                \A i \in Held : nodes'[i].st = "dropped"]_vars

\* a cancelled session has returned with a Primary and a Daemon entry dropped
C2_Witness ==
    /\ pc = "idle" /\ last.op = "return" /\ cancel_called
    /\ \E i, j \in Ids : /\ nodes[i].st = "dropped" /\ ~nodes[i].daemon
                         /\ nodes[j].st = "dropped" /\ nodes[j].daemon

\* C3: at a guard check with no unfinished Primary entry the session neither
\* polls nor sleeps (so a session with only Daemon entries never polls them
\* and never calls sleep()).
C3_NoPrimaryNoPoll ==
    [][(pc = "guard" /\ HeldPrimary = {}) => pc' \notin {"poll", "sleep"}]_vars

\* C4: cancel stays true once set inside a session, and it is false when the
\* next session on the thread starts.
C4_CancelPerSession ==
    [][/\ (pc # "idle" /\ cancel) => cancel'
       /\ (pc = "idle" /\ pc' = "init") => ~cancel']_vars

\* C5: non_daemons is 0 whenever the initializer of a session is invoked.
C5_CountResetAtEntry ==
    [][(pc = "idle" /\ pc' = "init") => non_daemons' = 0]_vars

\* C6: at every guard check and while the initializer or a poll runs,
\* non_daemons is the number of unfinished Primary entries the scheduler holds.
C6_CountMatchesEntries ==
    pc \in {"guard", "init", "poll"} => non_daemons = Cardinality(HeldPrimary)

\* C7: block_with_init called from the initializer or from a poll of an
\* active session panics before the inner initializer runs, with the outer
\* session's counter, flag, slot and entries as they were.
C7_NestedEnterPanics ==
    [][(pc \in {"init", "poll"} /\ last'.op = "block_with_init") =>
          /\ last'.res = "panic"
          /\ pc' = "panic"
          /\ UNCHANGED <<non_daemons, cancel, schedule, entered, nodes,
                         ready, cur, session>>]_vars

\* a nested call made from inside a poll has panicked
C7_Witness ==
    /\ pc = "panic" /\ last = [op |-> "block_with_init", res |-> "panic"]
    /\ cur # 0 /\ non_daemons > 0

\* C8: spawn, spawn_daemon and cancel_all_spawned called outside any session
\* panic and change neither the counter, the flag nor the scheduler.
C8_OutsideSessionPanics ==
    [][(pc = "idle"
          /\ last'.op \in {"spawn", "spawn_daemon", "cancel_all_spawned"}) =>
          /\ last'.res = "panic"
          /\ pc' = "abort"
          /\ UNCHANGED <<non_daemons, cancel, schedule, nodes, ready>>]_vars

\* after a session has returned, cancel_all_spawned has panicked
C8_Witness ==
    /\ pc = "abort" /\ last = [op |-> "cancel_all_spawned", res |-> "panic"]
    /\ prev_end = "returned"

\* C9: TaskExecutor.execute and DaemonExecutor.execute called while no handle
\* is installed return Err without panicking and change neither the counter,
\* the flag nor the scheduler.
C9_ExecutorRejects ==
    [][(schedule = "None" /\ last'.op \in {"TaskExecutor", "DaemonExecutor"}) =>
          /\ last'.res = "Err"
          /\ pc' = pc
          /\ UNCHANGED <<non_daemons, cancel, schedule, nodes, ready>>]_vars

\* a Primary submission through TaskExecutor was rejected while the session
\* thread was inside sleep() with a Primary entry pending
C9_Witness ==
    /\ last = [op |-> "TaskExecutor", res |-> "Err"]
    /\ pc = "sleep" /\ non_daemons = 1

\* C10: while neither Spin task has finished, at every poll the two unit
\* counts differ by at most one.
C10_FairnessBound ==
    (pc = "poll" /\ \A i \in Ids : nodes[i].st # "done")
        => Abs(state[1] - state[2]) <= 1

\* a poll starts with both tasks several units in and the counts one apart
C10_Witness ==
    /\ pc = "poll" /\ state[1] >= 2 /\ state[2] >= 2
    /\ Abs(state[1] - state[2]) = 1

\* C12: a finished entry is never polled again, and a session in which
\* cancel_all_spawned was not called returns with every Primary entry
\* submitted in it polled and finished.
C12_PrimariesPolledToEnd ==
    [][/\ (pc = "guard" /\ pc' = "poll") => nodes[cur'].st = "held"
       /\ (pc = "teardown" /\ pc' = "idle" /\ ~cancel_called) =>
             \A i \in Used : ~nodes[i].daemon =>
                 (nodes[i].st = "done" /\ nodes[i].polled)]_vars

\* C13: whenever a handle is installed, for the initializer or for a poll,
\* the slot was empty immediately before.
C13_InstallOnEmptySlot ==
    [][(last'.op = "tick_poll"
          \/ last' = [op |-> "block_with_init", res |-> "Ok"]) =>
          (schedule = "None" /\ schedule' = "Some")]_vars

\* in the second session on the thread, an entry submitted from a poll is
\* itself being polled
C13_Witness ==
    /\ pc = "poll" /\ last.op = "tick_poll" /\ session = 2
    /\ nodes[cur].in_poll

\* C14: the slot is empty when the initializer has returned, when a poll has
\* returned and when a session has ended by return or by panic, and a
\* submission made after the session is rejected and creates no entry.
C14_SlotClearedOnEveryExit ==
    [][/\ (pc \in {"init", "poll"} /\ pc' = "guard") => schedule' = "None"
       /\ pc' = "idle" => schedule' = "None"
       /\ (pc = "idle" /\ last'.op \in {"spawn", "spawn_daemon",
                                        "TaskExecutor", "DaemonExecutor"}) =>
             /\ last'.res \in {"Err", "panic"}
             /\ UNCHANGED <<nodes, ready>>]_vars

\* after a session ended by a panic, a TaskExecutor submission was rejected
C14_Witness ==
    /\ pc = "idle" /\ prev_end = "panicked"
    /\ last = [op |-> "TaskExecutor", res |-> "Err"]

\* C15: the Enter is held from the initializer until the loop has exited,
\* and a blocking wait started in the initializer or in a poll panics.
C15_EnterHeldForSession ==
    [][/\ pc' \in {"init", "guard", "poll", "sleep"} => entered'
       /\ (pc \in {"init", "poll"} /\ last'.op = "blocking_wait") =>
             (last'.res = "panic" /\ pc' = "panic")]_vars

\* a blocking wait made inside a poll has panicked
C15_Witness ==
    /\ pc = "panic" /\ last = [op |-> "blocking_wait", res |-> "panic"]
    /\ cur # 0

\* C16: while a Primary entry submitted from a poll is pending, no guard
\* check sees non_daemons = 0, and the session does not return with such an
\* entry unfinished unless cancel_all_spawned was called.
C16_SpawnInLastPollKeepsRunning ==
    [][/\ (pc' = "guard" /\ \E i \in Ids :
              /\ nodes'[i].st = "held" /\ ~nodes'[i].daemon
              /\ nodes'[i].in_poll) => non_daemons' > 0
       /\ (pc = "teardown" /\ pc' = "idle") =>
             \A i \in HeldPrimary : nodes[i].in_poll => cancel_called]_vars

\* the only other Primary entry has just finished in a poll and the one
\* submitted from a poll is pending, not yet polled, with the counter at 1
C16_Witness ==
    /\ pc = "guard" /\ last = [op |-> "poll", res |-> "Ready"]
    /\ non_daemons = 1 /\ ~cancel
    /\ \E i, j \in Ids :
          /\ nodes[i].st = "done" /\ ~nodes[i].daemon
          /\ nodes[j].st = "held" /\ ~nodes[j].daemon
          /\ nodes[j].in_poll /\ ~nodes[j].polled

\* C17: the loop leaves its guard into a poll or sleep() exactly when
\* non_daemons > 0 and cancel is false, and otherwise exits; a tick polls one
\* held entry and touches no other; after the poll the guard is next.
C17_GuardAndOnePoll ==
    [][/\ (pc = "guard" /\ pc' # "guard") =>
             IF non_daemons > 0 /\ ~cancel
             THEN pc' \in {"poll", "sleep"} ELSE pc' = "teardown"
       /\ (pc = "guard" /\ pc' = "poll") =>
             /\ cur' \in Held
             /\ \A i \in Ids \ {cur'} : nodes'[i] = nodes[i]
       /\ (pc = "poll" /\ pc' # "poll") => pc' \in {"guard", "panic"}]_vars

\* the guard is evaluated again after one poll while two entries are queued
C17_Witness ==
    /\ pc = "guard" /\ last = [op |-> "poll", res |-> "NotReady"]
    /\ Len(ready) = 2

\* C18: the thread enters sleep() only from Tick::Empty, with nothing queued
\* and the guard still true; after Tick::Inconsistent it is at the guard again.
C18_SleepOnlyOnEmpty ==
    [][/\ (pc # "sleep" /\ pc' = "sleep") =>
             /\ pc = "guard" /\ last'.op = "tick_empty" /\ ready = <<>>
             /\ non_daemons' > 0 /\ ~cancel'
       /\ last'.op = "tick_inconsistent" => pc' = "guard"]_vars

\* the thread is in sleep() after an entry was polled and is still held
C18_Witness ==
    /\ pc = "sleep" /\ last.op = "tick_empty"
    /\ \E i \in Held : nodes[i].polled

\* C19: a poll that finishes (Ready or Err) takes one off non_daemons, which
\* is above 0, when the entry is Primary and leaves it when the entry is
\* Daemon; a poll that reports NotReady leaves it.
C19_DecrementOnFinish ==
    [][(pc = "poll" /\ last'.op = "poll") =>
          /\ (last'.res \in {"Ready", "Err"} /\ ~nodes[cur].daemon) =>
                (non_daemons > 0 /\ non_daemons' = non_daemons - 1)
          /\ (last'.res \in {"Ready", "Err"} /\ nodes[cur].daemon) =>
                non_daemons' = non_daemons
          /\ last'.res = "NotReady" => non_daemons' = non_daemons]_vars

\* a Primary and a Daemon entry have finished, the last one by Err
C19_Witness ==
    /\ last = [op |-> "poll", res |-> "Err"] /\ non_daemons = 0
    /\ \E i, j \in Ids : /\ nodes[i].st = "done" /\ ~nodes[i].daemon
                         /\ nodes[j].st = "done" /\ nodes[j].daemon

\* C20: when the loop has exited in a session in which cancel_all_spawned
\* was not called, every entry still held is a Daemon entry.
C20_OnlyDaemonsLeft ==
    (pc = "teardown" /\ ~cancel_called) => HeldPrimary = {}

\* C11: the session that submitted the task waiting for the signal, and in
\* which cancel_all_spawned was not called, returns only after the signal was
\* sent and with the side effect counted once; the side effect is never
\* counted twice; and the thread is never left in sleep() with the sender
\* finished and no unpark pending.
C11_SignalWaited ==
    [][/\ (pc = "teardown" /\ pc' = "idle" /\ Used # {} /\ ~cancel_called) =>
             (Sent /\ signal.cnt = 1)
       /\ signal'.cnt <= 1
       /\ (pc' = "sleep" /\ signal'.tx = "done") => signal'.token]_vars

\* C21: a handle is installed while the initializer or a poll executes and
\* at no other point of a session: not at the guard between ticks, not in
\* sleep(), not at teardown; a submission or a cancel_all_spawned made in
\* sleep() or at teardown is refused and changes nothing of the session.
C21_HandleOnlyInWindow ==
    [][/\ pc' \in {"init", "poll"} => schedule' = "Some"
       /\ pc' \in {"guard", "sleep", "teardown", "idle"} => schedule' = "None"
       /\ (pc \in {"sleep", "teardown"}
             /\ last'.op \in {"spawn", "spawn_daemon", "TaskExecutor",
                              "DaemonExecutor", "cancel_all_spawned"}) =>
             /\ last'.res \in {"Err", "panic"}
             /\ UNCHANGED <<nodes, ready, non_daemons, cancel,
                            cancel_called>>]_vars

\* at teardown, with an entry left to drop, a submission through the
\* executor handle was refused
C21_Witness ==
    /\ pc = "teardown" /\ Held # {}
    /\ last = [op |-> "TaskExecutor", res |-> "Err"]

\* C22: a successful cancel_all_spawned leaves the caller where it is; a
\* submission made after it in the same initializer or poll is accepted,
\* its entry is queued and counted; once cancelled no entry gets polled, and
\* at the return every entry still held is dropped.
C22_CancelAtNextGuard ==
    [][/\ last' = [op |-> "cancel_all_spawned", res |-> "Ok"] =>
             (pc \in {"init", "poll"} /\ pc' = pc /\ cur' = cur)
       /\ (cancel_called /\ pc \in {"init", "poll"}
             /\ last'.op \in {"spawn", "spawn_daemon", "TaskExecutor",
                              "DaemonExecutor"}) =>
             /\ last'.res = "Ok" /\ pc' = pc
             /\ Len(ready') = Len(ready) + 1
             /\ nodes'[ready'[Len(ready')]].st = "held"
             /\ non_daemons' = non_daemons +
                   (IF nodes'[ready'[Len(ready')]].daemon THEN 0 ELSE 1)
       /\ (cancel_called /\ cancel_called') =>
             \A i \in Ids : nodes'[i].polled => nodes[i].polled
       /\ (cancel_called /\ pc = "teardown" /\ pc' = "idle") =>
             \A i \in Held :
                 nodes'[i].st = "dropped" /\ ~InQueue(ready', i)]_vars

\* inside a poll, after the cancel call, a Primary submission was accepted
C22_Witness ==
    /\ pc = "poll" /\ cancel_called /\ cancel
    /\ last = [op |-> "spawn", res |-> "Ok"]
    /\ \E i \in HeldPrimary : nodes[i].in_poll /\ ~nodes[i].polled

\* C23: once the drive loop of a session has started, the loop eventually
\* exits and block_with_init returns.
C23_SessionReturns == (pc = "guard") ~> (pc = "idle")

====
